---- MODULE Spec2Model ----
(***************************************************************************)
(* A model of the scene builders space_scene.py and grand_flyby.py:        *)
(*   - interpolation negotiation (apply_interp and its three call sites),  *)
(*   - the alias setters (safe_set, set_input),                            *)
(*   - the asteroid scatterers (create_asteroid_field, add_asteroid_field),*)
(*   - the node-graph recipes (nodes.new / links.new sequences),           *)
(*   - keyframe insertion (keyframe_vec / keyframe_insert),                *)
(*   - the module-level build sequence of each script (engine selection,   *)
(*     materials, scatter, camera path, keyframes, interpolation).         *)
(* Each part has its own specification; the variables of the other parts   *)
(* stay at their idle values.                                              *)
(***************************************************************************)
EXTENDS Integers, Sequences, FiniteSets, TLC

VARIABLES
    \* ---- interpolation negotiation
    pc,          \* position in the "Apply interpolation" section, or in a single call
    anim,        \* per object: animation_data present, action present, the action's fcurves
    enum_items,  \* interpolation modes the host advertises on a keyframe point
    call,        \* locals of the last apply_interp call
    raised,      \* an exception escaped to module level
    \* ---- alias setters
    inputs,      \* node.inputs: socket name -> default_value, for the sockets present
    attrs,       \* the attributes the object has: name -> value
    last,        \* the last safe_set / set_input call and what it did
    \* ---- asteroid scatterer
    field,       \* the arguments of the scatter call
    it,          \* loop variable i of `for i in range(count)`
    asteroids,   \* instance ids of the objects created so far, in creation order
    active_object, \* bpy.context.active_object: the object created last
    \* ---- node graphs
    recipe,      \* the recipe being run
    ip,          \* number of its statements executed
    nodes,       \* nt.nodes: node identity -> node type
    links,       \* nt.links: the links made, in call order
    \* ---- keyframe insertion
    kf,          \* the keyframe_vec calls made on one property: frames asked, calls done
    default_mode, \* the interpolation the host gives a newly inserted keyframe
    \* ---- module-level build sequence
    program,     \* the script being run
    step,        \* number of its build steps completed
    status,      \* "running", "done", or "aborted" by an exception at module level
    failed,      \* the step whose exception ended the script
    render,      \* engine selection: what the host advertises, what was assigned
    spline       \* FlyPath's spline.bezier_points: the control point coordinates

interpVars == <<pc, anim, enum_items, call, raised>>
compatVars == <<inputs, attrs, last>>
scatterVars == <<field, it, asteroids, active_object>>
graphVars == <<recipe, ip, nodes, links>>
curveVars == <<kf, default_mode>>
asmVars == <<program, step, status, failed, render, spline>>
vars == <<interpVars, compatVars, scatterVars, graphVars, curveVars, asmVars>>

\* Idle values: the part of the state a specification does not exercise.
NoCall ==
    [obj |-> "-", desired |-> "-", allowed |-> {}, use |-> "-", probe_raised |-> FALSE]

NoSetCall ==
    [op |-> "-", names |-> <<>>, before |-> <<>>, resolved |-> "-",
     touched |-> <<>>, rejected |-> FALSE, propagated |-> FALSE]

NoField == [script |-> "-", count |-> 0, inner |-> 0, outer |-> 0, zrange |-> 0]

NoObject == [id |-> -1, x |-> 0, y |-> 0, den |-> 1, z |-> 0, scale |-> 0]

NoKeyframing == [obj |-> "-", frames |-> <<>>, done |-> 0, error |-> "-"]

NoRender ==
    [engine_items |-> {}, USE_EEVEE |-> FALSE, EEVEE_ID |-> "-", engine |-> "-",
     set |-> {}]

IdleCurve == kf = NoKeyframing /\ default_mode = "-"

IdleAssembly ==
    /\ program = "-" /\ step = 0 /\ status = "-" /\ failed = "-"
    /\ render = NoRender /\ spline = <<>>

IdleInterp ==
    pc = "idle" /\ anim = <<>> /\ enum_items = {} /\ call = NoCall /\ raised = FALSE

IdleCompat == inputs = <<>> /\ attrs = <<>> /\ last = NoSetCall

IdleScatter ==
    field = NoField /\ it = 0 /\ asteroids = <<>> /\ active_object = NoObject

IdleGraph == recipe = "-" /\ ip = 0 /\ nodes = <<>> /\ links = <<>>

(***************************************************************************)
(* Interpolation negotiation                                               *)
(***************************************************************************)
FRAME_START == 1
FRAME_END == 300

\* Upper bound on the number of fcurves of one action.
MaxCurves == 2

\* keyframe_insert is called twice per animated property (FRAME_START, FRAME_END).
NumKeys == 2

Modes == {"CONSTANT", "LINEAR", "BEZIER", "SINE"}
Objects == {"cam", "target", "pivot"}

\* The fcurves of an action with n curves of which the first e hold no keyframe
\* point; every keyframe point starts with the host's default mode d0.
Keyframe(k, d0) ==
    [frame |-> IF k = 1 THEN FRAME_START ELSE FRAME_END, value |-> k - 1,
     interpolation |-> d0]

Curves(e, n, d0) ==
    [i \in 1..n |-> IF i <= e THEN <<>> ELSE [k \in 1..NumKeys |-> Keyframe(k, d0)]]

\* The states an object's animation can be in when apply_interp is reached.
AnimStates(d0) ==
    {[data |-> FALSE, action |-> FALSE, fcurves |-> <<>>],
     [data |-> TRUE, action |-> FALSE, fcurves |-> <<>>]}
    \cup {[data |-> TRUE, action |-> TRUE, fcurves |-> Curves(e, n, d0)] :
            e \in 0..MaxCurves, n \in 0..MaxCurves}

\* `if fcu.keyframe_points:` for some fcurve of the action
HasKeyframes(fcurves) == \E i \in DOMAIN fcurves : Len(fcurves[i]) > 0

\* The probe of apply_interp: the try block. `action.fcurves` on a missing action
\* raises, as may the bl_rna lookup (host_raises); both leave allowed = set().
Probe(a, host_raises) ==
    IF ~a.action THEN {}
    ELSE IF ~HasKeyframes(a.fcurves) THEN {}
    ELSE IF host_raises THEN {}
    ELSE enum_items

\* use = desired if desired in allowed else ('BEZIER' if 'BEZIER' in allowed else 'LINEAR')
Negotiate_LinearFirst(desired, allowed) ==
    IF desired \in allowed THEN desired
    ELSE IF "LINEAR" \in allowed THEN "LINEAR" ELSE "BEZIER"

Negotiate_KeepDesired(desired, allowed) ==
    IF desired \in allowed \/ allowed = {} THEN desired
    ELSE IF "BEZIER" \in allowed THEN "BEZIER" ELSE "LINEAR"

Negotiate(desired, allowed) ==
    IF desired \in allowed THEN desired
    ELSE IF "BEZIER" \in allowed THEN "BEZIER" ELSE "LINEAR"

\* The write loop: kp.interpolation = use for every keyframe point of every fcurve.
WriteAll_FirstCurveOnly(fcurves, use) ==
    [i \in DOMAIN fcurves |->
        [k \in DOMAIN fcurves[i] |->
            IF i = 1 THEN [fcurves[i][k] EXCEPT !.interpolation = use]
            ELSE fcurves[i][k]]]

WriteAll(fcurves, use) ==
    [i \in DOMAIN fcurves |->
        [k \in DOMAIN fcurves[i] |-> [fcurves[i][k] EXCEPT !.interpolation = use]]]

\* The write loop raises when the action is missing (AttributeError on
\* action.fcurves, outside the try block) and when the host refuses an enum value
\* it does not advertise on the first keyframe point assigned.
WriteRaises(a, use) ==
    \/ ~a.action
    \/ HasKeyframes(a.fcurves) /\ use \notin enum_items

\* apply_interp(action, desired) on object o's action.
apply_interp(o, desired, host_raises) ==
    LET a == anim[o]
        allowed == Probe(a, host_raises)
        use == Negotiate(desired, allowed)
        fails == WriteRaises(a, use)
    IN  /\ call' = [obj |-> o, desired |-> desired, allowed |-> allowed, use |-> use,
                    probe_raised |-> (a.action /\ HasKeyframes(a.fcurves) /\ host_raises)]
        /\ raised' = fails
        /\ anim' = IF fails THEN anim
                   ELSE [anim EXCEPT ![o].fcurves = WriteAll(a.fcurves, use)]

InitInterpState ==
    /\ enum_items \in (SUBSET Modes) \ {{}}
    /\ \E d0 \in enum_items : anim \in [Objects -> AnimStates(d0)]
    /\ call = NoCall
    /\ raised = FALSE

\* ---- The function alone: one call with any desired mode on any object that has
\* animation data.
InitInterp ==
    /\ InitInterpState
    /\ pc = "call"
    /\ IdleCompat /\ IdleScatter /\ IdleGraph
    /\ IdleCurve /\ IdleAssembly

CallApplyInterp ==
    /\ pc = "call"
    /\ \E o \in Objects, desired \in Modes, host_raises \in BOOLEAN :
         /\ anim[o].data
         /\ apply_interp(o, desired, host_raises)
    /\ pc' = IF raised' THEN "aborted" ELSE "returned"
    /\ UNCHANGED <<enum_items, compatVars, scatterVars, graphVars,
                 curveVars, asmVars>>

NextInterp == CallApplyInterp

SpecInterp == InitInterp /\ [][NextInterp]_vars

\* ---- The three call sites, in script order.
InitSites ==
    /\ InitInterpState
    /\ pc = "cam"
    /\ IdleCompat /\ IdleScatter /\ IdleGraph
    /\ IdleCurve /\ IdleAssembly

\* if cam.animation_data and cam.animation_data.action: apply_interp(..., 'LINEAR')
CamSite ==
    /\ pc = "cam"
    /\ IF anim["cam"].data /\ anim["cam"].action
       THEN \E host_raises \in BOOLEAN : apply_interp("cam", "LINEAR", host_raises)
       ELSE UNCHANGED <<anim, call, raised>>
    /\ pc' = IF raised' THEN "aborted" ELSE "target"
    /\ UNCHANGED <<enum_items, compatVars, scatterVars, graphVars,
                 curveVars, asmVars>>

\* if target.animation_data and target.animation_data.action: apply_interp(..., 'SINE')
TargetSite ==
    /\ pc = "target"
    /\ IF anim["target"].data /\ anim["target"].action
       THEN \E host_raises \in BOOLEAN : apply_interp("target", "SINE", host_raises)
       ELSE UNCHANGED <<anim, call, raised>>
    /\ pc' = IF raised' THEN "aborted" ELSE "pivot"
    /\ UNCHANGED <<enum_items, compatVars, scatterVars, graphVars,
                 curveVars, asmVars>>

\* if objects.get("MoonPivot") and objects["MoonPivot"].animation_data:
\*     apply_interp(objects["MoonPivot"].animation_data.action, 'LINEAR')
PivotSite ==
    /\ pc = "pivot"
    /\ IF anim["pivot"].data
       THEN \E host_raises \in BOOLEAN : apply_interp("pivot", "LINEAR", host_raises)
       ELSE UNCHANGED <<anim, call, raised>>
    /\ pc' = IF raised' THEN "aborted" ELSE "done"
    /\ UNCHANGED <<enum_items, compatVars, scatterVars, graphVars,
                 curveVars, asmVars>>

NextSites == CamSite \/ TargetSite \/ PivotSite

SpecSites == InitSites /\ [][NextSites]_vars

(***************************************************************************)
(* Claims on interpolation negotiation                                     *)
(***************************************************************************)
Called == call.obj # "-"

\* C1: for every desired mode and every non-empty supported set, the mode chosen
\* by apply_interp is desired when desired is supported, otherwise BEZIER when
\* BEZIER is supported (even if LINEAR is too), otherwise LINEAR.
C1_ReferenceChain ==
    (Called /\ call.allowed # {}) =>
        /\ call.desired \in call.allowed => call.use = call.desired
        /\ (call.desired \notin call.allowed /\ "BEZIER" \in call.allowed)
              => call.use = "BEZIER"
        /\ (call.desired \notin call.allowed /\ "BEZIER" \notin call.allowed)
              => call.use = "LINEAR"

C1_Witness ==
    /\ Called
    /\ call.desired \notin call.allowed
    /\ {"BEZIER", "LINEAR"} \subseteq call.allowed
    /\ call.use = "BEZIER"

\* C2 (as stated): when the supported set is left empty (no keyframe to probe, or
\* the probe raised), the chosen mode is the desired mode, for every desired mode.
C2_EmptyKeepsDesired ==
    (Called /\ call.allowed = {}) => call.use = call.desired

\* C2 (amended): when the supported set is left empty, the chosen mode is LINEAR
\* whatever mode was desired.
C2_EmptyGivesLinear ==
    (Called /\ call.allowed = {}) => call.use = "LINEAR"

C2_Witness ==
    /\ Called
    /\ call.probe_raised
    /\ call.allowed = {}
    /\ call.desired = "SINE"
    /\ call.use = "LINEAR"
    /\ \A i \in DOMAIN anim[call.obj].fcurves :
         \A k \in DOMAIN anim[call.obj].fcurves[i] :
            anim[call.obj].fcurves[i][k].interpolation = "LINEAR"

\* C3: for every desired mode and every non-empty supported set, the chosen mode
\* is a member of the supported set.
C3_ChosenIsSupported ==
    (Called /\ call.allowed # {}) => call.use \in call.allowed

\* C4: apply_interp never raises at the three call sites (camera, focus target,
\* MoonPivot). Stated for the calls whose negotiated mode the host advertises, so
\* that the unsupported-mode case of C3 is not what refutes it.
C4_NeverRaises ==
    (Called /\ call.use \in enum_items) => ~raised

\* C18: after apply_interp(action, desired) returns, every keyframe point of every
\* curve of that action carries the one negotiated mode, and nothing else has
\* changed: the curves, their keyframe count, times and values, and the other
\* objects' animation are as before.
C18_FrameEffect ==
    [][pc' = "returned" =>
         LET o == call'.obj
             before == anim[o].fcurves
             after == anim'[o].fcurves
         IN  /\ \A p \in Objects \ {o} : anim'[p] = anim[p]
             /\ anim'[o].data = anim[o].data /\ anim'[o].action = anim[o].action
             /\ DOMAIN after = DOMAIN before
             /\ \A i \in DOMAIN before :
                  /\ DOMAIN after[i] = DOMAIN before[i]
                  /\ \A k \in DOMAIN before[i] :
                       /\ after[i][k].frame = before[i][k].frame
                       /\ after[i][k].value = before[i][k].value
                       /\ after[i][k].interpolation = call'.use
             /\ call'.use = Negotiate(call'.desired, call'.allowed)
             /\ call'.allowed \in {{}, enum_items}
             /\ enum_items' = enum_items]_vars

\* Two curves with keyframes were rewritten to a mode they did not start with,
\* while another object's keyframes kept theirs.
C18_Witness ==
    /\ pc = "returned"
    /\ call.obj = "cam"
    /\ Len(anim["cam"].fcurves) = 2
    /\ \A i \in 1..2 :
         /\ Len(anim["cam"].fcurves[i]) = NumKeys
         /\ \A k \in 1..NumKeys : anim["cam"].fcurves[i][k].interpolation = call.use
    /\ Len(anim["target"].fcurves) = 2
    /\ Len(anim["target"].fcurves[2]) = NumKeys
    /\ anim["target"].fcurves[2][1].interpolation # call.use


(***************************************************************************)
(* Alias setters: safe_set and set_input                                   *)
(***************************************************************************)
\* Sockets a Principled BSDF may expose under one host version or another, and
\* attributes an Eevee settings object may have.
SocketNames == {"Specular", "Specular IOR Level", "Roughness"}
AttrNames == {"use_bloom", "bloom_intensity", "use_gtao"}

\* The set_input calls of planet_material, ring_material and gas_giant_material
\* (values in hundredths).
SetInputCalls ==
    {[names |-> <<"Specular", "Specular IOR Level">>, value |-> 35],
     [names |-> <<"Roughness">>, value |-> 60],
     [names |-> <<"Roughness">>, value |-> 30],
     [names |-> <<"Specular", "Specular IOR Level">>, value |-> 60]}

\* The safe_set calls of the Eevee branch (True as 1, 0.04 as 4).
SafeSetCalls ==
    {[prop |-> "use_bloom", value |-> 1],
     [prop |-> "bloom_intensity", value |-> 4],
     [prop |-> "use_gtao", value |-> 1]}

\* safe_set(obj, prop, value): `target` is the object's attribute map, `rejects`
\* whether the host raises on the setattr.
safe_set_NoTry(target, prop, value, rejects) ==
    IF prop \in DOMAIN target
    THEN [target |-> IF rejects THEN target ELSE [target EXCEPT ![prop] = value],
          resolved |-> prop, touched |-> <<prop>>, rejected |-> rejects,
          propagated |-> rejects]
    ELSE [target |-> target, resolved |-> "none", touched |-> <<>>,
          rejected |-> FALSE, propagated |-> FALSE]

safe_set(target, prop, value, rejects) ==
    IF prop \in DOMAIN target
    THEN [target |-> IF rejects THEN target ELSE [target EXCEPT ![prop] = value],
          resolved |-> prop, touched |-> <<prop>>, rejected |-> rejects,
          propagated |-> FALSE]
    ELSE [target |-> target, resolved |-> "none", touched |-> <<>>,
          rejected |-> FALSE, propagated |-> FALSE]

\* set_input(node, names, value): the loop over names from position i on.
\* `rejects` is the set of sockets on which the host raises on assignment.
RECURSIVE set_input_NoReturn(_, _, _, _, _)
set_input_NoReturn(target, names, i, value, rejects) ==
    IF i > Len(names)
    THEN [target |-> target, resolved |-> "none", touched |-> <<>>,
          rejected |-> FALSE, propagated |-> FALSE]
    ELSE LET rest == set_input_NoReturn(
                        IF names[i] \in DOMAIN target /\ names[i] \notin rejects
                        THEN [target EXCEPT ![names[i]] = value] ELSE target,
                        names, i + 1, value, rejects)
         IN  IF names[i] \in DOMAIN target
             THEN [rest EXCEPT !.resolved = names[i],
                               !.touched = <<names[i]>> \o rest.touched,
                               !.rejected = rest.rejected \/ names[i] \in rejects]
             ELSE rest

RECURSIVE set_input_from(_, _, _, _, _)
set_input_from(target, names, i, value, rejects) ==
    IF i > Len(names)
    THEN [target |-> target, resolved |-> "none", touched |-> <<>>,
          rejected |-> FALSE, propagated |-> FALSE]
    ELSE IF names[i] \in DOMAIN target
    THEN [target |-> IF names[i] \in rejects THEN target
                     ELSE [target EXCEPT ![names[i]] = value],
          resolved |-> names[i], touched |-> <<names[i]>>,
          rejected |-> names[i] \in rejects, propagated |-> FALSE]
    ELSE set_input_from(target, names, i + 1, value, rejects)

set_input(target, names, value, rejects) ==
    set_input_from(target, names, 1, value, rejects)

InitCompat ==
    /\ \E present \in SUBSET SocketNames : inputs = [s \in present |-> 0]
    /\ \E present \in SUBSET AttrNames : attrs = [a \in present |-> 0]
    /\ last = NoSetCall
    /\ IdleInterp /\ IdleScatter /\ IdleGraph
    /\ IdleCurve /\ IdleAssembly

SetInput ==
    /\ \E c \in SetInputCalls, rejects \in SUBSET SocketNames :
         LET r == set_input(inputs, c.names, c.value, rejects)
         IN  /\ inputs' = r.target
             /\ last' = [op |-> "set_input", names |-> c.names, before |-> inputs,
                         resolved |-> r.resolved, touched |-> r.touched,
                         rejected |-> r.rejected, propagated |-> r.propagated]
    /\ UNCHANGED <<attrs, interpVars, scatterVars, graphVars,
                 curveVars, asmVars>>

SafeSet ==
    /\ \E c \in SafeSetCalls, rejects \in BOOLEAN :
         LET r == safe_set(attrs, c.prop, c.value, rejects)
         IN  /\ attrs' = r.target
             /\ last' = [op |-> "safe_set", names |-> <<c.prop>>, before |-> attrs,
                         resolved |-> r.resolved, touched |-> r.touched,
                         rejected |-> r.rejected, propagated |-> r.propagated]
    /\ UNCHANGED <<inputs, interpVars, scatterVars, graphVars,
                 curveVars, asmVars>>

NextCompat == SetInput \/ SafeSet

SpecCompat == InitCompat /\ [][NextCompat]_vars

(***************************************************************************)
(* Claims on the alias setters                                             *)
(***************************************************************************)
\* The target of the last call, after it.
TargetNow == IF last.op = "set_input" THEN inputs ELSE attrs

\* Positions of the candidates present in the target before the call.
PresentAt == {i \in DOMAIN last.names : last.names[i] \in DOMAIN last.before}

Changed == {n \in DOMAIN last.before : TargetNow[n] # last.before[n]}

\* C5: set_input resolves to the first candidate, in list order, that is present
\* among the node's sockets, and to none (no socket touched, no error) when no
\* candidate is present; at most one socket is written per call.
C5_FirstPresentAlias ==
    last.op = "set_input" =>
        /\ PresentAt = {} =>
              last.resolved = "none" /\ last.touched = <<>> /\ inputs = last.before
        /\ \A i \in PresentAt :
              (\A j \in PresentAt : i <= j) =>
                  /\ last.resolved = last.names[i]
                  /\ last.touched = <<last.names[i]>>
                  /\ Changed \subseteq {last.names[i]}
        /\ Cardinality(Changed) <= 1
        /\ DOMAIN inputs = DOMAIN last.before
        /\ ~last.propagated

\* Both aliases present: the first one is written, the second left alone.
C5_Witness ==
    /\ last.op = "set_input"
    /\ last.names = <<"Specular", "Specular IOR Level">>
    /\ PresentAt = {1, 2}
    /\ last.resolved = "Specular"
    /\ Changed = {"Specular"}

\* The spec's example: resolve({"Roughness"}, ["Specular", "Specular IOR Level"]).
C5_WitnessNone ==
    /\ last.op = "set_input"
    /\ DOMAIN last.before = {"Roughness"}
    /\ last.names = <<"Specular", "Specular IOR Level">>
    /\ last.resolved = "none"

\* C6: safe_set and set_input never propagate a failure: a host rejection of the
\* assignment is swallowed, and when the property or every alias is absent the
\* target is left unchanged and gains no attribute.
C6_NeverPropagates ==
    last.op # "-" =>
        /\ ~last.propagated
        /\ DOMAIN TargetNow = DOMAIN last.before
        /\ last.rejected => TargetNow = last.before
        /\ PresentAt = {} => TargetNow = last.before

\* The host rejected the assignment of a present property, and the call returned.
C6_Witness ==
    /\ last.op = "safe_set"
    /\ last.rejected
    /\ PresentAt # {}
    /\ ~last.propagated
    /\ attrs = last.before

(***************************************************************************)
(* Asteroid scatterers: create_asteroid_field (space_scene.py) and         *)
(* add_asteroid_field (grand_flyby.py)                                     *)
(*                                                                         *)
(* Lengths are in tenths of a scene unit. random.random() is k / RandDen   *)
(* for k in 0..RandDen (k = RandDen: the end point b that floating-point   *)
(* rounding of a + (b-a)*random() can return), so a drawn length is kept   *)
(* as its numerator over 10 * RandDen. A direction (cos ang, sin ang) is a *)
(* rational unit vector (c/den, s/den); x and y are kept as numerators     *)
(* over 10 * RandDen * den. The scene keeps every object created; the      *)
(* scatterers only ever handle the one created last (active_object), which *)
(* is the one the state holds in full.                                     *)
(***************************************************************************)
\* Upper bound on the count argument.
MaxCount == 3

\* Resolution of the random source.
RandDen == 2

\* space_scene.py (tenths)
ASTEROID_INNER == 100
ASTEROID_OUTER == 180
ASTEROID_Z == 15
SPACE_SCALE_MIN == 1
SPACE_SCALE_MAX == 4
PLANET_LOC == [x |-> 0, y |-> 0, z |-> 0]

\* grand_flyby.py (tenths)
ASTEROID_RING_IN == 300
ASTEROID_RING_OUT == 600
FLYBY_Z == 50
FLYBY_SIZE_MIN == 2
FLYBY_SIZE_MAX == 8

\* Unit vectors (cos ang, sin ang) = (c / den, s / den), all four quadrants.
Dirs ==
    {[c |-> 1, s |-> 0, den |-> 1], [c |-> 0, s |-> 1, den |-> 1],
     [c |-> -1, s |-> 0, den |-> 1], [c |-> 0, s |-> -1, den |-> 1],
     [c |-> 3, s |-> 4, den |-> 5], [c |-> -4, s |-> 3, den |-> 5],
     [c |-> -5, s |-> -12, den |-> 13], [c |-> 12, s |-> -5, den |-> 13]}

\* random.uniform(a, b) = a + (b - a) * random(), as a numerator over RandDen.
uniform_NoOffset(a, b, k) == a * RandDen + b * k

uniform(a, b, k) == a * RandDen + (b - a) * k

\* range(n): the values the loop variable takes, in order.
range_FromOne(n) == [j \in 1..(n - 1) |-> j]

range(n) == [j \in 1..n |-> j - 1]

\* The annulus fields tried: both scripts' fields, a degenerate ring, a disc.
Fields ==
    {[inner |-> ASTEROID_INNER, outer |-> ASTEROID_OUTER],
     [inner |-> ASTEROID_RING_IN, outer |-> ASTEROID_RING_OUT],
     [inner |-> ASTEROID_INNER, outer |-> ASTEROID_INNER],
     [inner |-> 0, outer |-> ASTEROID_Z]}

InitScatter ==
    /\ \E script \in {"space_scene", "grand_flyby"}, f \in Fields, count \in 0..MaxCount :
         field = [script |-> script, count |-> count, inner |-> f.inner,
                  outer |-> f.outer,
                  zrange |-> IF script = "space_scene" THEN ASTEROID_Z ELSE FLYBY_Z]
    /\ it = 0
    /\ asteroids = <<>>
    /\ active_object = NoObject
    /\ IdleInterp /\ IdleCompat /\ IdleGraph
    /\ IdleCurve /\ IdleAssembly

\* One iteration of `for i in range(count)` in create_asteroid_field.
CreateAsteroid ==
    /\ field.script = "space_scene"
    /\ it < Len(range(field.count))
    /\ LET i == range(field.count)[it + 1]
       IN  \E d \in Dirs, kr \in 0..RandDen, kz \in 0..RandDen, ks \in 0..RandDen :
             LET rad == uniform(field.inner, field.outer, kr)
                 x == PLANET_LOC.x * RandDen * d.den + rad * d.c
                 y == PLANET_LOC.y * RandDen * d.den + rad * d.s
                 z == PLANET_LOC.z * RandDen + uniform(-field.zrange, field.zrange, kz)
                 scale == uniform(SPACE_SCALE_MIN, SPACE_SCALE_MAX, ks)
             IN  /\ active_object' = [id |-> i, x |-> x, y |-> y, den |-> d.den,
                                      z |-> z, scale |-> scale]
                 /\ asteroids' = Append(asteroids, i)
    /\ it' = it + 1
    /\ UNCHANGED <<field, interpVars, compatVars, graphVars,
                 curveVars, asmVars>>

\* One iteration of `for i in range(count)` in add_asteroid_field.
AddAsteroid ==
    /\ field.script = "grand_flyby"
    /\ it < Len(range(field.count))
    /\ LET i == range(field.count)[it + 1]
       IN  \E d \in Dirs, kr \in 0..RandDen, kz \in 0..RandDen, ks \in 0..RandDen :
             LET r == uniform(field.inner, field.outer, kr)
                 z == uniform(-FLYBY_Z, FLYBY_Z, kz)
                 size == uniform(FLYBY_SIZE_MIN, FLYBY_SIZE_MAX, ks)
             IN  /\ active_object' = [id |-> i, x |-> r * d.c, y |-> r * d.s,
                                      den |-> d.den, z |-> z, scale |-> size]
                 /\ asteroids' = Append(asteroids, i)
    /\ it' = it + 1
    /\ UNCHANGED <<field, interpVars, compatVars, graphVars,
                 curveVars, asmVars>>

NextScatter == CreateAsteroid \/ AddAsteroid

SpecScatter == InitScatter /\ [][NextScatter]_vars

(***************************************************************************)
(* Claims on the scatterers                                                *)
(***************************************************************************)
\* The loop has run to its end.
ScatterDone == field.script # "-" /\ it >= Len(range(field.count))

\* C7: for every count >= 0 the scatterer produces exactly count records, one per
\* loop iteration, in generation order, with pairwise-distinct ids 0..count-1.
C7_ExactlyCountRecords ==
    field.script # "-" =>
        /\ Len(asteroids) = it
        /\ \A j \in DOMAIN asteroids : asteroids[j] = j - 1
        /\ \A j, k \in DOMAIN asteroids : j # k => asteroids[j] # asteroids[k]
        /\ Len(asteroids) <= field.count
        /\ ScatterDone =>
              /\ Len(asteroids) = field.count
              /\ {asteroids[j] : j \in DOMAIN asteroids} = 0..(field.count - 1)

C7_Witness ==
    /\ ScatterDone
    /\ field.count = MaxCount
    /\ Len(asteroids) = MaxCount
    /\ active_object.id = MaxCount - 1

\* The scale range and the centre of the field of the script that is run.
ScaleMin == IF field.script = "space_scene" THEN SPACE_SCALE_MIN ELSE FLYBY_SIZE_MIN
ScaleMax == IF field.script = "space_scene" THEN SPACE_SCALE_MAX ELSE FLYBY_SIZE_MAX
CentreOf == IF field.script = "space_scene" THEN PLANET_LOC ELSE [x |-> 0, y |-> 0, z |-> 0]

PlanarRadiusSquared(o) ==
    LET dx == o.x - CentreOf.x * RandDen * o.den
        dy == o.y - CentreOf.y * RandDen * o.den
    IN  dx * dx + dy * dy

\* C8: for every annulus field with inner <= outer, every record produced has
\* planar radius within [inner, outer], height within [-h, h] of the field's
\* centre plane and scale within [scale_min, scale_max], whatever the random
\* source returns.
C8_RecordWithinField ==
    (Len(asteroids) > 0 /\ field.inner <= field.outer) =>
        LET o == active_object
            lo == field.inner * RandDen * o.den
            hi == field.outer * RandDen * o.den
            dz == o.z - CentreOf.z * RandDen
        IN  /\ lo * lo <= PlanarRadiusSquared(o)
            /\ PlanarRadiusSquared(o) <= hi * hi
            /\ -field.zrange * RandDen <= dz
            /\ dz <= field.zrange * RandDen
            /\ ScaleMin * RandDen <= o.scale
            /\ o.scale <= ScaleMax * RandDen

\* A record on the outer edge of grand_flyby's ring (r = 60), off the axes, at the
\* top of the height range.
C8_Witness ==
    /\ field.script = "grand_flyby"
    /\ field.inner = ASTEROID_RING_IN /\ field.outer = ASTEROID_RING_OUT
    /\ Len(asteroids) > 0
    /\ active_object.den = 5
    /\ PlanarRadiusSquared(active_object)
         = (ASTEROID_RING_OUT * RandDen * 5) * (ASTEROID_RING_OUT * RandDen * 5)
    /\ active_object.z = FLYBY_Z * RandDen

(***************************************************************************)
(* Node graphs: every recipe is its sequence of node-tree statements       *)
(* (removal of the nodes present, nodes.new, links.new), in source order.  *)
(* A node is named by the Python variable that holds it.                   *)
(***************************************************************************)
Clean == [op |-> "clean", a |-> "-", out |-> "-", b |-> "-", in |-> "-"]
New(v, t) == [op |-> "new", a |-> v, out |-> "-", b |-> t, in |-> "-"]
Link(a, o, b, i) == [op |-> "link", a |-> a, out |-> o, b |-> b, in |-> i]

\* space_scene.py: clean_scene's node removal, then build_starfield_world
space_build_starfield_world ==
    <<Clean,
       New("out", "ShaderNodeOutputWorld"),
       New("bg_black", "ShaderNodeBackground"),
       New("mix", "ShaderNodeMixShader"),
       New("emission", "ShaderNodeEmission"),
       New("vor", "ShaderNodeTexVoronoi"),
       New("cramp", "ShaderNodeValToRGB"),
       New("texcoord", "ShaderNodeTexCoord"),
       New("power", "ShaderNodeMath"),
       Link("texcoord", "Generated", "vor", "Vector"),
       Link("vor", "Distance", "cramp", "Fac"),
       Link("cramp", "Color", "power", "0"),
       Link("power", "Value", "mix", "Fac"),
       Link("bg_black", "Background", "mix", "1"),
       Link("emission", "Emission", "mix", "2"),
       Link("mix", "Shader", "out", "Surface")>>

\* planet_material without its `for n in list(nodes): nodes.remove(n)`
space_planet_material_NoClean ==
    <<New("out", "ShaderNodeOutputMaterial"),
       New("princ", "ShaderNodeBsdfPrincipled"),
       New("texcoord", "ShaderNodeTexCoord"),
       New("mapping", "ShaderNodeMapping"),
       New("noise_cont", "ShaderNodeTexNoise"),
       New("ramp_landsea", "ShaderNodeValToRGB"),
       New("noise_detail", "ShaderNodeTexNoise"),
       New("vor", "ShaderNodeTexVoronoi"),
       New("mix_rough", "ShaderNodeMixRGB"),
       New("bump", "ShaderNodeBump"),
       New("mix_height", "ShaderNodeMath"),
       Link("texcoord", "Object", "mapping", "Vector"),
       Link("mapping", "Vector", "noise_cont", "Vector"),
       Link("mapping", "Vector", "noise_detail", "Vector"),
       Link("mapping", "Vector", "vor", "Vector"),
       Link("noise_cont", "Fac", "ramp_landsea", "Fac"),
       Link("ramp_landsea", "Color", "princ", "Base Color"),
       Link("noise_detail", "Fac", "mix_rough", "Color1"),
       Link("vor", "Distance", "mix_rough", "Color2"),
       Link("mix_rough", "Color", "princ", "Roughness"),
       Link("noise_cont", "Fac", "mix_height", "0"),
       Link("noise_detail", "Fac", "mix_height", "1"),
       Link("mix_height", "Value", "bump", "Height"),
       Link("bump", "Normal", "princ", "Normal"),
       Link("princ", "BSDF", "out", "Surface")>>

\* space_scene.py: planet_material
space_planet_material ==
    <<Clean,
       New("out", "ShaderNodeOutputMaterial"),
       New("princ", "ShaderNodeBsdfPrincipled"),
       New("texcoord", "ShaderNodeTexCoord"),
       New("mapping", "ShaderNodeMapping"),
       New("noise_cont", "ShaderNodeTexNoise"),
       New("ramp_landsea", "ShaderNodeValToRGB"),
       New("noise_detail", "ShaderNodeTexNoise"),
       New("vor", "ShaderNodeTexVoronoi"),
       New("mix_rough", "ShaderNodeMixRGB"),
       New("bump", "ShaderNodeBump"),
       New("mix_height", "ShaderNodeMath"),
       Link("texcoord", "Object", "mapping", "Vector"),
       Link("mapping", "Vector", "noise_cont", "Vector"),
       Link("mapping", "Vector", "noise_detail", "Vector"),
       Link("mapping", "Vector", "vor", "Vector"),
       Link("noise_cont", "Fac", "ramp_landsea", "Fac"),
       Link("ramp_landsea", "Color", "princ", "Base Color"),
       Link("noise_detail", "Fac", "mix_rough", "Color1"),
       Link("vor", "Distance", "mix_rough", "Color2"),
       Link("mix_rough", "Color", "princ", "Roughness"),
       Link("noise_cont", "Fac", "mix_height", "0"),
       Link("noise_detail", "Fac", "mix_height", "1"),
       Link("mix_height", "Value", "bump", "Height"),
       Link("bump", "Normal", "princ", "Normal"),
       Link("princ", "BSDF", "out", "Surface")>>

\* ring_material with both shaders linked into mix_shader.inputs[1]
space_ring_material_SameSlot ==
    <<Clean,
       New("out", "ShaderNodeOutputMaterial"),
       New("princ", "ShaderNodeBsdfPrincipled"),
       New("texcoord", "ShaderNodeTexCoord"),
       New("mapping", "ShaderNodeMapping"),
       New("wave", "ShaderNodeTexWave"),
       New("ramp", "ShaderNodeValToRGB"),
       New("transp", "ShaderNodeBsdfTransparent"),
       New("mix_shader", "ShaderNodeMixShader"),
       Link("texcoord", "Object", "mapping", "Vector"),
       Link("mapping", "Vector", "wave", "Vector"),
       Link("wave", "Color", "ramp", "Fac"),
       Link("ramp", "Color", "princ", "Base Color"),
       Link("ramp", "Color", "mix_shader", "Fac"),
       Link("transp", "BSDF", "mix_shader", "1"),
       Link("princ", "BSDF", "mix_shader", "1"),
       Link("mix_shader", "Shader", "out", "Surface")>>

\* space_scene.py: ring_material
space_ring_material ==
    <<Clean,
       New("out", "ShaderNodeOutputMaterial"),
       New("princ", "ShaderNodeBsdfPrincipled"),
       New("texcoord", "ShaderNodeTexCoord"),
       New("mapping", "ShaderNodeMapping"),
       New("wave", "ShaderNodeTexWave"),
       New("ramp", "ShaderNodeValToRGB"),
       New("transp", "ShaderNodeBsdfTransparent"),
       New("mix_shader", "ShaderNodeMixShader"),
       Link("texcoord", "Object", "mapping", "Vector"),
       Link("mapping", "Vector", "wave", "Vector"),
       Link("wave", "Color", "ramp", "Fac"),
       Link("ramp", "Color", "princ", "Base Color"),
       Link("ramp", "Color", "mix_shader", "Fac"),
       Link("transp", "BSDF", "mix_shader", "1"),
       Link("princ", "BSDF", "mix_shader", "2"),
       Link("mix_shader", "Shader", "out", "Surface")>>

\* space_scene.py: moon_material
space_moon_material ==
    <<Clean,
       New("out", "ShaderNodeOutputMaterial"),
       New("princ", "ShaderNodeBsdfPrincipled"),
       New("noise", "ShaderNodeTexNoise"),
       New("bump", "ShaderNodeBump"),
       Link("noise", "Fac", "bump", "Height"),
       Link("bump", "Normal", "princ", "Normal"),
       Link("princ", "BSDF", "out", "Surface")>>

\* space_scene.py: gas_giant_material
space_gas_giant_material ==
    <<Clean,
       New("out", "ShaderNodeOutputMaterial"),
       New("princ", "ShaderNodeBsdfPrincipled"),
       New("texcoord", "ShaderNodeTexCoord"),
       New("mapping", "ShaderNodeMapping"),
       New("wave", "ShaderNodeTexWave"),
       New("ramp", "ShaderNodeValToRGB"),
       Link("texcoord", "Object", "mapping", "Vector"),
       Link("mapping", "Vector", "wave", "Vector"),
       Link("wave", "Color", "ramp", "Fac"),
       Link("ramp", "Color", "princ", "Base Color"),
       Link("princ", "BSDF", "out", "Surface")>>

\* space_scene.py: asteroid_material
space_asteroid_material ==
    <<Clean,
       New("out", "ShaderNodeOutputMaterial"),
       New("princ", "ShaderNodeBsdfPrincipled"),
       New("noise", "ShaderNodeTexNoise"),
       New("bump", "ShaderNodeBump"),
       Link("noise", "Fac", "bump", "Height"),
       Link("bump", "Normal", "princ", "Normal"),
       Link("princ", "BSDF", "out", "Surface")>>

\* space_scene.py: add_sun
space_add_sun ==
    <<Clean,
       New("out", "ShaderNodeOutputMaterial"),
       New("emit", "ShaderNodeEmission"),
       New("bb", "ShaderNodeBlackbody"),
       Link("bb", "Color", "emit", "Color"),
       Link("emit", "Emission", "out", "Surface")>>

\* space_scene.py: nebula_cube
space_nebula_cube ==
    <<Clean,
       New("out", "ShaderNodeOutputMaterial"),
       New("pvol", "ShaderNodeVolumePrincipled"),
       New("texcoord", "ShaderNodeTexCoord"),
       New("noise", "ShaderNodeTexNoise"),
       New("cramp", "ShaderNodeValToRGB"),
       New("mult", "ShaderNodeMath"),
       Link("texcoord", "Object", "noise", "Vector"),
       Link("noise", "Fac", "cramp", "Fac"),
       Link("cramp", "Color", "pvol", "Color"),
       Link("noise", "Fac", "mult", "0"),
       Link("mult", "Value", "pvol", "Emission Strength"),
       Link("pvol", "Volume", "out", "Volume")>>

\* build_starfield_world on a world whose nodes clean_scene did not remove
flyby_build_starfield_world_NoClean ==
    <<New("out", "ShaderNodeOutputWorld"),
       New("bg_black", "ShaderNodeBackground"),
       New("mix", "ShaderNodeMixShader"),
       New("emission", "ShaderNodeEmission"),
       New("vor", "ShaderNodeTexVoronoi"),
       New("cramp", "ShaderNodeValToRGB"),
       New("texcoord", "ShaderNodeTexCoord"),
       New("power", "ShaderNodeMath"),
       Link("texcoord", "Generated", "vor", "Vector"),
       Link("vor", "Distance", "cramp", "Fac"),
       Link("cramp", "Color", "power", "0"),
       Link("power", "Value", "mix", "Fac"),
       Link("bg_black", "Background", "mix", "1"),
       Link("emission", "Emission", "mix", "2"),
       Link("mix", "Shader", "out", "Surface")>>

\* grand_flyby.py: clean_scene's node removal, then build_starfield_world
flyby_build_starfield_world ==
    <<Clean,
       New("out", "ShaderNodeOutputWorld"),
       New("bg_black", "ShaderNodeBackground"),
       New("mix", "ShaderNodeMixShader"),
       New("emission", "ShaderNodeEmission"),
       New("vor", "ShaderNodeTexVoronoi"),
       New("cramp", "ShaderNodeValToRGB"),
       New("texcoord", "ShaderNodeTexCoord"),
       New("power", "ShaderNodeMath"),
       Link("texcoord", "Generated", "vor", "Vector"),
       Link("vor", "Distance", "cramp", "Fac"),
       Link("cramp", "Color", "power", "0"),
       Link("power", "Value", "mix", "Fac"),
       Link("bg_black", "Background", "mix", "1"),
       Link("emission", "Emission", "mix", "2"),
       Link("mix", "Shader", "out", "Surface")>>

\* grand_flyby.py: gas_giant_material
flyby_gas_giant_material ==
    <<Clean,
       New("out", "ShaderNodeOutputMaterial"),
       New("princ", "ShaderNodeBsdfPrincipled"),
       New("texcoord", "ShaderNodeTexCoord"),
       New("mapping", "ShaderNodeMapping"),
       New("noise", "ShaderNodeTexNoise"),
       New("ramp", "ShaderNodeValToRGB"),
       Link("texcoord", "Object", "mapping", "Vector"),
       Link("mapping", "Vector", "noise", "Vector"),
       Link("noise", "Fac", "ramp", "Fac"),
       Link("ramp", "Color", "princ", "Base Color"),
       Link("princ", "BSDF", "out", "Surface")>>

\* grand_flyby.py: ice_planet_material
flyby_ice_planet_material ==
    <<Clean,
       New("out", "ShaderNodeOutputMaterial"),
       New("princ", "ShaderNodeBsdfPrincipled"),
       New("texcoord", "ShaderNodeTexCoord"),
       New("noise", "ShaderNodeTexNoise"),
       New("ramp", "ShaderNodeValToRGB"),
       Link("texcoord", "Object", "noise", "Vector"),
       Link("noise", "Fac", "ramp", "Fac"),
       Link("ramp", "Color", "princ", "Base Color"),
       Link("princ", "BSDF", "out", "Surface")>>

\* grand_flyby.py: asteroid_material
flyby_asteroid_material ==
    <<Clean,
       New("out", "ShaderNodeOutputMaterial"),
       New("princ", "ShaderNodeBsdfPrincipled"),
       Link("princ", "BSDF", "out", "Surface")>>

\* grand_flyby.py: add_sun
flyby_add_sun ==
    <<Clean,
       New("out", "ShaderNodeOutputMaterial"),
       New("emit", "ShaderNodeEmission"),
       New("bb", "ShaderNodeBlackbody"),
       Link("bb", "Color", "emit", "Color"),
       Link("emit", "Emission", "out", "Surface")>>

\* grand_flyby.py: nebula_cube
flyby_nebula_cube ==
    <<Clean,
       New("out", "ShaderNodeOutputMaterial"),
       New("pvol", "ShaderNodeVolumePrincipled"),
       New("texcoord", "ShaderNodeTexCoord"),
       New("noise", "ShaderNodeTexNoise"),
       New("ramp", "ShaderNodeValToRGB"),
       New("mult", "ShaderNodeMath"),
       Link("texcoord", "Object", "noise", "Vector"),
       Link("noise", "Fac", "ramp", "Fac"),
       Link("ramp", "Color", "pvol", "Color"),
       Link("noise", "Fac", "mult", "0"),
       Link("mult", "Value", "pvol", "Emission Strength"),
       Link("pvol", "Volume", "out", "Volume")>>

Recipes ==
    [space_build_starfield_world |-> space_build_starfield_world,
     space_planet_material |-> space_planet_material,
     space_ring_material |-> space_ring_material,
     space_moon_material |-> space_moon_material,
     space_gas_giant_material |-> space_gas_giant_material,
     space_asteroid_material |-> space_asteroid_material,
     space_add_sun |-> space_add_sun,
     space_nebula_cube |-> space_nebula_cube,
     flyby_build_starfield_world |-> flyby_build_starfield_world,
     flyby_gas_giant_material |-> flyby_gas_giant_material,
     flyby_ice_planet_material |-> flyby_ice_planet_material,
     flyby_asteroid_material |-> flyby_asteroid_material,
     flyby_add_sun |-> flyby_add_sun,
     flyby_nebula_cube |-> flyby_nebula_cube]

RecipeNames == DOMAIN Recipes

IsOutput(type) == type \in {"ShaderNodeOutputWorld", "ShaderNodeOutputMaterial"}

\* node.inputs[ref]: a socket is reached by name or by position; on a Mix Shader
\* the socket named "Fac" is the one at position 0.
InputKey(type, ref) ==
    IF type = "ShaderNodeMixShader" /\ ref = "Fac" THEN "0" ELSE ref

\* The node tree a recipe starts from: empty, or the pair of nodes the host puts
\* in a tree when use_nodes is switched on.
DefaultNodes(world) ==
    IF world
    THEN [n \in {"Background", "World Output"} |->
            IF n = "Background" THEN "ShaderNodeBackground" ELSE "ShaderNodeOutputWorld"]
    ELSE [n \in {"Principled BSDF", "Material Output"} |->
            IF n = "Principled BSDF" THEN "ShaderNodeBsdfPrincipled"
            ELSE "ShaderNodeOutputMaterial"]

DefaultLinks(world) ==
    IF world
    THEN <<[from |-> "Background", out |-> "Background", to |-> "World Output",
            in |-> "Surface"]>>
    ELSE <<[from |-> "Principled BSDF", out |-> "BSDF", to |-> "Material Output",
            in |-> "Surface"]>>

IsWorld(r) == r \in {"space_build_starfield_world", "flyby_build_starfield_world"}

InitGraph ==
    /\ recipe \in RecipeNames
    /\ ip = 0
    /\ \/ nodes = <<>> /\ links = <<>>
       \/ nodes = DefaultNodes(IsWorld(recipe)) /\ links = DefaultLinks(IsWorld(recipe))
    /\ IdleInterp /\ IdleCompat /\ IdleScatter
    /\ IdleCurve /\ IdleAssembly

Statement == Recipes[recipe][ip + 1]

Running == recipe # "-" /\ ip < Len(Recipes[recipe])

\* for n in list(nodes): nodes.remove(n)   (or nodes.clear()); the host drops the
\* links of a removed node.
CleanNodes ==
    /\ Running /\ Statement.op = "clean"
    /\ nodes' = <<>>
    /\ links' = <<>>
    /\ ip' = ip + 1
    /\ UNCHANGED <<recipe, interpVars, compatVars, scatterVars,
                 curveVars, asmVars>>

\* v = nodes.new(type)
NodesNew ==
    /\ Running /\ Statement.op = "new"
    /\ nodes' = [n \in DOMAIN nodes \cup {Statement.a} |->
                    IF n = Statement.a THEN Statement.b ELSE nodes[n]]
    /\ UNCHANGED links
    /\ ip' = ip + 1
    /\ UNCHANGED <<recipe, interpVars, compatVars, scatterVars,
                 curveVars, asmVars>>

\* links.new(a.outputs[out], b.inputs[in])
LinksNew ==
    /\ Running /\ Statement.op = "link"
    /\ links' = Append(links, [from |-> Statement.a, out |-> Statement.out,
                               to |-> Statement.b,
                               in |-> InputKey(nodes[Statement.b], Statement.in)])
    /\ UNCHANGED nodes
    /\ ip' = ip + 1
    /\ UNCHANGED <<recipe, interpVars, compatVars, scatterVars,
                 curveVars, asmVars>>

NextGraph == CleanNodes \/ NodesNew \/ LinksNew

SpecGraph == InitGraph /\ [][NextGraph]_vars

(***************************************************************************)
(* Claims on the node graphs                                               *)
(***************************************************************************)
RecipeDone == recipe # "-" /\ ip = Len(Recipes[recipe])

\* Nodes reached from the set S by following links forward, in at most n steps.
RECURSIVE Forward(_, _)
Forward(S, n) ==
    IF n = 0 THEN S
    ELSE Forward(S \cup {links[i].to : i \in {j \in DOMAIN links : links[j].from \in S}},
                 n - 1)

\* Nodes strictly downstream of v.
Downstream(v) ==
    Forward({links[i].to : i \in {j \in DOMAIN links : links[j].from = v}},
            Cardinality(DOMAIN nodes))

Acyclic == \A v \in DOMAIN nodes : v \notin Downstream(v)

OneLinkPerInput ==
    \A i, j \in DOMAIN links :
        (links[i].to = links[j].to /\ links[i].in = links[j].in) => i = j

\* C9: every graph a recipe builds is acyclic and has at most one link into each
\* input socket, after every prefix of the recipe's link calls.
C9_AcyclicSingleConsumer ==
    recipe # "-" =>
        /\ Acyclic
        /\ OneLinkPerInput
        /\ \A i \in DOMAIN links : {links[i].from, links[i].to} \subseteq DOMAIN nodes

\* The ring graph, finished: ramp feeds two inputs, mix_shader has three inputs fed.
C9_Witness ==
    /\ recipe = "space_ring_material"
    /\ RecipeDone
    /\ Len(links) = 8
    /\ Cardinality({i \in DOMAIN links : links[i].to = "mix_shader"}) = 3

Terminals == {n \in DOMAIN nodes : IsOutput(nodes[n])}

\* C10: a finished graph has exactly one terminal (output) node, and every other
\* node has a directed path of links to it.
C10_OneTerminalAllContribute ==
    RecipeDone =>
        /\ Cardinality(Terminals) = 1
        /\ \A n \in DOMAIN nodes \ Terminals : Terminals \subseteq Downstream(n)

\* The planet graph, finished, built over the host's default nodes.
C10_Witness ==
    /\ recipe = "space_planet_material"
    /\ RecipeDone
    /\ Cardinality(DOMAIN nodes) = 11
    /\ Terminals = {"out"}
    /\ "out" \in Downstream("texcoord")

TerminalInLinks == {i \in DOMAIN links : links[i].to \in Terminals}

\* C11 (as stated): the starfield world graph of grand_flyby.py (scale 600, spread
\* 0.003), built on the node tree clean_scene emptied, has exactly 7 nodes and 7
\* links, and its world output node has exactly one incoming link.
C11_SevenNodesSevenLinks ==
    (recipe = "flyby_build_starfield_world" /\ RecipeDone) =>
        /\ Cardinality(DOMAIN nodes) = 7
        /\ Len(links) = 7
        /\ Cardinality(TerminalInLinks) = 1

\* C11 (amended): that graph has exactly 8 nodes and 7 links, and its world output
\* node has exactly one incoming link.
C11_EightNodesSevenLinks ==
    (recipe = "flyby_build_starfield_world" /\ RecipeDone) =>
        /\ Cardinality(DOMAIN nodes) = 8
        /\ Len(links) = 7
        /\ Cardinality(Terminals) = 1
        /\ Cardinality(TerminalInLinks) = 1

\* The starfield graph finished over a world that held the host's default nodes.
C11_Witness ==
    /\ recipe = "flyby_build_starfield_world"
    /\ RecipeDone
    /\ DOMAIN nodes = {"out", "bg_black", "mix", "emission", "vor", "cramp",
                       "texcoord", "power"}
    /\ \E i \in DOMAIN links : links[i].from = "mix" /\ links[i].to = "out"

(***************************************************************************)
(* Keyframe insertion: keyframe_vec and the host's keyframe_insert         *)
(***************************************************************************)
FLYBY_FRAME_END == 600

\* Bound: keyframe_vec calls made on one property.
MaxInserts == 3

Frames == {FRAME_START, FRAME_END, FLYBY_FRAME_END}

\* Vectors of space_scene.py, in tenths of a unit.
CAMERA_START == <<-250, -180, 60>>
CAMERA_END == <<60, 40, 20>>
FOCUS_TARGET == <<0, 0, 0>>
\* FOCUS_TARGET + Vector((1.5, 0.7, 0.2))
FOCUS_DRIFT == <<15, 7, 2>>

\* An object that has not been animated: no animation_data, no action.
NoAnimation == [data |-> FALSE, action |-> FALSE, fcurves |-> <<>>]

\* The host's F-curve: keyframe_points are kept in frame order, and a key inserted
\* on a frame that already has one replaces it.
InsertKey_Append(curve, key) == Append(curve, key)

InsertKey(curve, key) ==
    IF \E k \in DOMAIN curve : curve[k].frame = key.frame
    THEN [k \in DOMAIN curve |-> IF curve[k].frame = key.frame THEN key ELSE curve[k]]
    ELSE LET n == Cardinality({k \in DOMAIN curve : curve[k].frame < key.frame})
         IN  SubSeq(curve, 1, n) \o <<key>> \o SubSeq(curve, n + 1, Len(curve))

\* obj.keyframe_insert(data_path, frame=frame) with the property holding `values`:
\* one F-curve per array component, created with the action by the first insertion;
\* the new key records the property's value and the host's default interpolation.
keyframe_insert(a, frame, values) ==
    LET base == IF a.action THEN a.fcurves ELSE [i \in DOMAIN values |-> <<>>]
    IN  [data |-> TRUE, action |-> TRUE,
         fcurves |-> [i \in DOMAIN values |->
                        InsertKey(base[i], [frame |-> frame, value |-> values[i],
                                            interpolation |-> default_mode])]]

\* keyframe_vec(obj, attr, frame, vec): setattr(obj, attr, vec), then keyframe_insert.
keyframe_vec(obj, frame, vec) ==
    anim' = [anim EXCEPT ![obj] = keyframe_insert(anim[obj], frame, vec)]

\* The host: the modes it advertises, and the one it gives a new keyframe.
InitHostModes ==
    /\ enum_items \in (SUBSET Modes) \ {{}}
    /\ default_mode \in enum_items

\* ---- keyframe_vec alone: up to MaxInserts calls on cam.location, at any frames in
\* any order.
InitKeyframes ==
    /\ InitHostModes
    /\ \E n \in 0..MaxInserts : \E fs \in [1..n -> Frames] :
         kf = [obj |-> "cam", frames |-> fs, done |-> 0, error |-> "-"]
    /\ anim = [o \in Objects |-> NoAnimation]
    /\ pc = "idle" /\ call = NoCall /\ raised = FALSE
    /\ IdleCompat /\ IdleScatter /\ IdleGraph /\ IdleAssembly

KeyframeVec ==
    /\ kf.obj # "-"
    /\ kf.done < Len(kf.frames)
    /\ \E vec \in {CAMERA_START, CAMERA_END} :
         keyframe_vec(kf.obj, kf.frames[kf.done + 1], vec)
    /\ kf' = [kf EXCEPT !.done = @ + 1]
    /\ UNCHANGED <<pc, enum_items, call, raised, default_mode, compatVars,
                   scatterVars, graphVars, asmVars>>

NextKeyframes == KeyframeVec

SpecKeyframes == InitKeyframes /\ [][NextKeyframes]_vars

(***************************************************************************)
(* Claims on keyframe insertion                                            *)
(***************************************************************************)
KeyframingDone == kf.obj # "-" /\ kf.done = Len(kf.frames)

StrictlyIncreasing(ts) == \A i \in 1..(Len(ts) - 1) : ts[i] < ts[i + 1]

CurveTimes(curve) == [k \in DOMAIN curve |-> curve[k].frame]

\* The curves built so far on the property under test.
Built == anim[kf.obj].fcurves

C12_WitnessRepeated ==
    /\ KeyframingDone
    /\ kf.frames = <<FRAME_START, FRAME_START>>
    /\ Len(Built) = 3
    /\ CurveTimes(Built[1]) = <<FRAME_START>>
    /\ Built[1][1].value = CAMERA_END[1]

(***************************************************************************)
(* The module-level build sequence of the two scripts                      *)
(***************************************************************************)
SPACE_ASTEROID_COUNT == 300
FLYBY_ASTEROID_COUNT == 250

\* Bound: control points the host's new Bezier curve may start with.
MaxInitPoints == 2

Engines == {"BLENDER_EEVEE_NEXT", "BLENDER_EEVEE", "CYCLES", "BLENDER_WORKBENCH"}

\* A build step: a statement (or call) at module level, in source order.
Do(name, kind) == [name |-> name, kind |-> kind, obj |-> "-", frame |-> 0, values |-> <<>>]

Key(name, obj, frame, values) ==
    [name |-> name, kind |-> "keyframe", obj |-> obj, frame |-> frame, values |-> values]

Interp(name, obj) ==
    [name |-> name, kind |-> "interp", obj |-> obj, frame |-> 0, values |-> <<>>]

\* add_moon's orbit animation: rotation_euler = (0, 0, 0) keyed at FRAME_START, then
\* rotation_euler.z = radians(360) keyed at FRAME_END. Angles in degrees.
add_moon_orbit_Reversed ==
    <<Key("pivot_rotation_end", "pivot", FRAME_END, <<0, 0, 360>>),
      Key("pivot_rotation_start", "pivot", FRAME_START, <<0, 0, 0>>)>>

add_moon_orbit ==
    <<Key("pivot_rotation_start", "pivot", FRAME_START,
          [i \in 1..3 |-> 0]),
      Key("pivot_rotation_end", "pivot", FRAME_END,
          [[i \in 1..3 |-> 0] EXCEPT ![3] = 360])>>

\* space_scene.py, lines 88-615
space_scene_steps ==
    <<Do("clean_scene", "reset"),
      Do("scene_settings", "settings"),
      Do("engine", "engine"),
      Do("build_starfield_world", "world"),
      Do("planet_material", "material"),
      Do("ring_material", "material"),
      Do("moon_material", "material")>>
    \o add_moon_orbit \o
    <<Do("gas_giant_material", "material"),
      Do("asteroid_material", "material"),
      Do("create_asteroid_field", "scatter"),
      Do("add_sun", "material"),
      Do("nebula_cube", "material"),
      Do("camera_add", "camera"),
      Key("cam_location_start", "cam", FRAME_START, CAMERA_START),
      Key("cam_location_end", "cam", FRAME_END, CAMERA_END),
      Key("target_location_start", "target", FRAME_START, FOCUS_TARGET),
      Key("target_location_end", "target", FRAME_END, FOCUS_DRIFT),
      Interp("apply_interp_cam", "cam"),
      Interp("apply_interp_target", "target"),
      Interp("apply_interp_pivot", "pivot"),
      Do("depth_of_field", "settings")>>

\* grand_flyby.py, lines 274-326
grand_flyby_steps_NebulaFirst ==
    <<Do("clean_scene", "reset"),
      Do("scene_settings", "settings"),
      Do("engine", "engine"),
      Do("nebula_cube", "material"),
      Do("build_starfield_world", "world"),
      Do("add_sun", "material"),
      Do("gas_giant_material", "material"),
      Do("ice_planet_material", "material"),
      Do("asteroid_material", "material"),
      Do("add_asteroid_field", "scatter"),
      Do("camera_add", "camera"),
      Do("build_camera_path", "path"),
      Key("offset_factor_start", "cam", FRAME_START, <<0>>),
      Key("offset_factor_end", "cam", FLYBY_FRAME_END, <<1>>),
      Do("depth_of_field", "settings")>>

grand_flyby_steps ==
    <<Do("clean_scene", "reset"),
      Do("scene_settings", "settings"),
      Do("engine", "engine"),
      Do("build_starfield_world", "world"),
      Do("add_sun", "material"),
      Do("gas_giant_material", "material"),
      Do("ice_planet_material", "material"),
      Do("asteroid_material", "material"),
      Do("add_asteroid_field", "scatter"),
      Do("nebula_cube", "material"),
      Do("camera_add", "camera"),
      Do("build_camera_path", "path"),
      Key("offset_factor_start", "cam", FRAME_START, <<0>>),
      Key("offset_factor_end", "cam", FLYBY_FRAME_END, <<1>>),
      Do("depth_of_field", "settings")>>

Steps == IF program = "space_scene" THEN space_scene_steps ELSE grand_flyby_steps

Current == Steps[step + 1]

At(kind) == status = "running" /\ step < Len(Steps) /\ Current.kind = kind

\* The statement completed: on to the next one, or the end of the script.
Advance ==
    /\ step' = step + 1
    /\ status' = IF step + 1 = Len(Steps) THEN "done" ELSE "running"
    /\ failed' = failed
    /\ program' = program

\* An exception reached module level: neither script has a try statement there, so
\* the interpreter stops the script at this statement.
Abort ==
    /\ step' = step
    /\ status' = "aborted"
    /\ failed' = Current.name
    /\ program' = program

\* ---- engine selection
\* EEVEE_ID = 'BLENDER_EEVEE_NEXT' if ... in engine_items else
\*            ('BLENDER_EEVEE' if ... in engine_items else None)
EEVEE_ID_LegacyFirst(engine_items) ==
    IF "BLENDER_EEVEE" \in engine_items THEN "BLENDER_EEVEE"
    ELSE IF "BLENDER_EEVEE_NEXT" \in engine_items THEN "BLENDER_EEVEE_NEXT"
    ELSE "None"

EEVEE_ID(engine_items) ==
    IF "BLENDER_EEVEE_NEXT" \in engine_items THEN "BLENDER_EEVEE_NEXT"
    ELSE IF "BLENDER_EEVEE" \in engine_items THEN "BLENDER_EEVEE"
    ELSE "None"

\* The safe_set calls of each branch: on scene.eevee, on scene.cycles.
EeveeProps ==
    IF program = "space_scene"
    THEN <<"use_bloom", "bloom_intensity", "use_gtao", "volumetric_end",
           "volumetric_start">>
    ELSE <<"use_bloom", "bloom_intensity", "volumetric_end">>

CyclesProps ==
    IF program = "space_scene" THEN <<"samples", "use_adaptive_sampling">> ELSE <<>>

\* The properties a run of safe_set calls really sets on a settings object that
\* has the attributes in DOMAIN target and refuses the values of those in rejects.
RECURSIVE SafeSetAll(_, _, _, _)
SafeSetAll(target, props, i, rejects) ==
    IF i > Len(props) THEN {}
    ELSE LET r == safe_set(target, props[i], 1, props[i] \in rejects)
         IN  (IF r.resolved # "none" /\ ~r.rejected THEN {props[i]} ELSE {})
             \cup SafeSetAll(r.target, props, i + 1, rejects)

Range(seq) == {seq[i] : i \in DOMAIN seq}

\* `if USE_EEVEE and EEVEE_ID: ... else: scene.render.engine = 'CYCLES' ...`
\* An identifier missing from the enum_items read may still be accepted (engines
\* registered by add-ons) or be refused with a TypeError.
SelectEngine ==
    /\ At("engine")
    /\ LET id == EEVEE_ID(render.engine_items)
           eevee == render.USE_EEVEE /\ id # "None"
           engine == IF eevee THEN id ELSE "CYCLES"
           owner == IF eevee THEN "eevee" ELSE "cycles"
           props == IF eevee THEN EeveeProps ELSE CyclesProps
       IN  \E accepted \in BOOLEAN :
             /\ engine \in render.engine_items => accepted
             /\ IF accepted
                THEN /\ \E present \in SUBSET Range(props), rejects \in SUBSET Range(props) :
                          render' = [render EXCEPT
                              !.EEVEE_ID = id, !.engine = engine,
                              !.set = {[owner |-> owner, prop |-> q] :
                                         q \in SafeSetAll([q \in present |-> 0],
                                                           props, 1, rejects)}]
                     /\ Advance
                ELSE /\ render' = [render EXCEPT !.EEVEE_ID = id]
                     /\ Abort
    /\ UNCHANGED <<interpVars, compatVars, scatterVars, graphVars, curveVars, spline>>

\* ---- camera path (grand_flyby.py)
PATH_START == <<-120, -80, 40>>
PATH_MID == <<-20, 30, 15>>
PATH_END == <<90, 0, -20>>

\* The control points of the curve primitive_bezier_curve_add creates, before the
\* script touches them: point i of the host's default curve.
HostPoint(i) == <<2 * i - 3, 0, 0>>

\* The coordinate of a point created by bezier_points.add and never assigned.
UnsetPoint == <<0, 0, 0>>

\* spline.bezier_points.add(n)
bezier_points_add(points, n) == points \o [i \in 1..n |-> UnsetPoint]

\* build_camera_path(start, mid, end) on a host whose new curve has n0 points.
build_camera_path(start, mid, end, n0) ==
    LET created == [i \in 1..n0 |-> HostPoint(i)]
        p0 == [created EXCEPT ![1] = start]
        added1 == bezier_points_add(p0, 1)
        p1 == [added1 EXCEPT ![2] = mid]
        added2 == bezier_points_add(p1, 1)
    IN  [added2 EXCEPT ![3] = end]

\* ---- the steps
\* clean_scene(): every object, material and world node of an earlier run is removed.
CleanScene ==
    /\ At("reset")
    /\ anim' = [o \in Objects |-> NoAnimation]
    /\ field' = NoField /\ it' = 0 /\ asteroids' = <<>> /\ active_object' = NoObject
    /\ spline' = <<>>
    /\ Advance
    /\ UNCHANGED <<pc, enum_items, call, raised, compatVars, graphVars, curveVars,
                   render>>

\* Scene settings, camera_add and the target empty, depth of field: assignments and
\* safe_set calls that create no keyframe, material or path.
Setup ==
    /\ At("settings") \/ At("camera")
    /\ Advance
    /\ UNCHANGED <<interpVars, compatVars, scatterVars, graphVars, curveVars, render,
                   spline>>

\* build_starfield_world(scene.world). inputs[...] / outputs[...] lookups and
\* nodes.new raise when the host lacks the socket or node type.
BuildWorld ==
    /\ At("world")
    /\ \E raises \in BOOLEAN : IF raises THEN Abort ELSE Advance
    /\ UNCHANGED <<interpVars, compatVars, scatterVars, graphVars, curveVars, render,
                   spline>>

\* One body's material graph: x.data.materials.append(x_material()), add_sun,
\* nebula_cube. The same lookups may raise.
BuildMaterial ==
    /\ At("material")
    /\ \E raises \in BOOLEAN : IF raises THEN Abort ELSE Advance
    /\ UNCHANGED <<interpVars, compatVars, scatterVars, graphVars, curveVars, render,
                   spline>>

\* create_asteroid_field() / add_asteroid_field(ASTEROID_COUNT, ...): the call's
\* arguments, and the loop run to its end. The objects it creates are not
\* enumerated here: their number, placement and size are the subject of SpecScatter.
Scatter ==
    /\ At("scatter")
    /\ field' = IF program = "space_scene"
                THEN [script |-> program, count |-> SPACE_ASTEROID_COUNT,
                      inner |-> ASTEROID_INNER, outer |-> ASTEROID_OUTER,
                      zrange |-> ASTEROID_Z]
                ELSE [script |-> program, count |-> FLYBY_ASTEROID_COUNT,
                      inner |-> ASTEROID_RING_IN, outer |-> ASTEROID_RING_OUT,
                      zrange |-> FLYBY_Z]
    /\ it' = field'.count
    /\ Advance
    /\ UNCHANGED <<interpVars, compatVars, asteroids, active_object, graphVars,
                   curveVars, render, spline>>

\* path = build_camera_path(Vector((-120, -80, 40)), Vector((-20, 30, 15)),
\*                          Vector((90, 0, -20)))
BuildCameraPath ==
    /\ At("path")
    /\ \E n0 \in 1..MaxInitPoints :
         spline' = build_camera_path(PATH_START, PATH_MID, PATH_END, n0)
    /\ Advance
    /\ UNCHANGED <<interpVars, compatVars, scatterVars, graphVars, curveVars, render>>

\* One keyframe_vec call, or a property assignment followed by keyframe_insert.
InsertKeyframe ==
    /\ At("keyframe")
    /\ keyframe_vec(Current.obj, Current.frame, Current.values)
    /\ Advance
    /\ UNCHANGED <<pc, enum_items, call, raised, compatVars, scatterVars, graphVars,
                   curveVars, render, spline>>

\* One call site of the "Apply interpolation" section, with its guard.
ApplyInterpolation ==
    /\ At("interp")
    /\ LET o == Current.obj
           guard == IF o = "pivot" THEN anim[o].data ELSE anim[o].data /\ anim[o].action
           desired == IF o = "target" THEN "SINE" ELSE "LINEAR"
       IN  IF guard
           THEN \E host_raises \in BOOLEAN : apply_interp(o, desired, host_raises)
           ELSE UNCHANGED <<anim, call, raised>>
    /\ IF raised' THEN Abort ELSE Advance
    /\ UNCHANGED <<pc, enum_items, compatVars, scatterVars, graphVars, curveVars,
                   render, spline>>

InitAssembly ==
    /\ program \in {"space_scene", "grand_flyby"}
    /\ step = 0 /\ status = "running" /\ failed = "-"
    /\ \E engine_items \in SUBSET Engines, use_eevee \in BOOLEAN :
         render = [NoRender EXCEPT !.engine_items = engine_items,
                                   !.USE_EEVEE = use_eevee]
    /\ spline = <<>>
    /\ InitHostModes
    /\ anim = [o \in Objects |-> NoAnimation]
    /\ pc = "idle" /\ call = NoCall /\ raised = FALSE
    /\ kf = NoKeyframing
    /\ IdleCompat /\ IdleScatter /\ IdleGraph

NextAssembly ==
    \/ CleanScene
    \/ Setup
    \/ SelectEngine
    \/ BuildWorld
    \/ BuildMaterial
    \/ Scatter
    \/ BuildCameraPath
    \/ InsertKeyframe
    \/ ApplyInterpolation

SpecAssembly == InitAssembly /\ [][NextAssembly]_vars

(***************************************************************************)
(* Claims on the build sequence                                            *)
(***************************************************************************)
Executed(name) == \E i \in 1..step : Steps[i].name = name

KindOf(name) ==
    IF \E i \in DOMAIN Steps : Steps[i].name = name
    THEN (CHOOSE st \in Range(Steps) : st.name = name).kind
    ELSE "-"

\* C13: assembly is partially fault-tolerant: when building one body's material
\* graph fails, the script is not stopped there; every later step is still
\* executed and the scene reaches its completed state, only that material missing.
C13_MaterialFailureDoesNotStop ==
    KindOf(failed) = "material" =>
        /\ status # "aborted"
        /\ status = "done" => step = Len(Steps)

\* C14: the camera path has exactly three control points, in order start, mid,
\* end, however many points the host's new curve starts with.
C14_ExactlyThreePoints ==
    Executed("build_camera_path") => spline = <<PATH_START, PATH_MID, PATH_END>>

\* Frame and value of each key of an F-curve, in curve order.
KeyData(curve) == [k \in DOMAIN curve |-> <<curve[k].frame, curve[k].value>>]

\* C15: the orbit pivot's rotation curve is exactly two keyframes: rotation 0 at
\* FRAME_START and one full turn (360 degrees about z) at FRAME_END, inserted in
\* that order, with no other keyframe on the property.
C15_PivotOrbitTwoKeys ==
    LET c == anim["pivot"].fcurves
        turn(i) == IF i = 3 THEN 360 ELSE 0
    IN  IF program = "space_scene" /\ Executed("pivot_rotation_end")
        THEN /\ Executed("pivot_rotation_start")
             /\ DOMAIN c = 1..3
             /\ \A i \in 1..3 :
                  KeyData(c[i]) = <<<<FRAME_START, 0>>, <<FRAME_END, turn(i)>>>>
        ELSE IF program = "space_scene" /\ Executed("pivot_rotation_start")
        THEN /\ DOMAIN c = 1..3
             /\ \A i \in 1..3 : KeyData(c[i]) = <<<<FRAME_START, 0>>>>
        ELSE c = <<>>

\* The script ran to its end and the pivot's z rotation curve holds both keys.
C15_Witness ==
    /\ program = "space_scene"
    /\ status = "done"
    /\ KeyData(anim["pivot"].fcurves[3]) = <<<<1, 0>>, <<300, 360>>>>
    /\ KeyData(anim["pivot"].fcurves[1]) = <<<<1, 0>>, <<300, 0>>>>

\* The steps executed so far are in non-decreasing order of rank; steps of rank 0
\* are not ordered by the claim.
InRankOrder(rank(_)) ==
    \A i, j \in 1..step :
        (i < j /\ rank(Steps[i]) > 0 /\ rank(Steps[j]) > 0)
            => rank(Steps[i]) <= rank(Steps[j])

StatedRank(st) ==
    CASE st.kind = "reset" -> 1
      [] st.kind = "world" -> 2
      [] st.kind = "material" -> 3
      [] st.kind = "scatter" -> 4
      [] st.kind = "path" -> 5
      [] st.kind = "keyframe" -> 6
      [] st.kind = "interp" -> 7
      [] OTHER -> 0

\* Material graphs, the scatter and the pivot's keyframes share a rank.
ActualRank(st) ==
    CASE st.kind = "reset" -> 1
      [] st.kind = "world" -> 2
      [] st.kind = "material" -> 3
      [] st.kind = "scatter" -> 3
      [] st.kind = "keyframe" /\ st.obj = "pivot" -> 3
      [] st.kind = "path" -> 4
      [] st.kind = "keyframe" /\ st.obj # "pivot" -> 5
      [] st.kind = "interp" -> 6
      [] OTHER -> 0

ScatterExecuted == \E i \in 1..step : Steps[i].kind = "scatter"

\* C16 (as stated): in both scripts the steps run in the order scene reset, world
\* graph, every body's material graph, asteroid scatter, camera path, animation
\* curves, interpolation negotiation; no material graph is built after the scatter
\* and no keyframe is inserted before it.
C16_StatedOrder == InRankOrder(StatedRank)

\* C16 (amended): in both scripts the scene reset runs first, then the world graph,
\* then the material graphs and the scatter, then the camera path (grand_flyby.py),
\* then the camera and target animation curves, then interpolation negotiation
\* (space_scene.py); but the nebula material graph (and in space_scene.py the
\* sun's) is built after the scatter, and the moon pivot's keyframes are inserted
\* before the scatter, among the material graphs.
C16_ActualOrder ==
    /\ InRankOrder(ActualRank)
    /\ Executed("nebula_cube") => ScatterExecuted
    /\ Executed("asteroid_material") \/ ~ScatterExecuted
    /\ (program = "space_scene" /\ Executed("add_sun")) => ScatterExecuted
    /\ (program = "grand_flyby" /\ ScatterExecuted) => Executed("add_sun")
    /\ (program = "space_scene" /\ ScatterExecuted) => Executed("pivot_rotation_end")

\* grand_flyby.py ran to its end: the nebula graph was built after the scatter.
C16_Witness ==
    /\ program = "grand_flyby"
    /\ status = "done"
    /\ Executed("nebula_cube") /\ Executed("add_asteroid_field")
    /\ Len(anim["cam"].fcurves) = 1
    /\ KeyData(anim["cam"].fcurves[1]) = <<<<1, 0>>, <<600, 1>>>>

\* space_scene.py ran to its end: keyframes before the scatter, graphs after it.
C16_WitnessSpace ==
    /\ program = "space_scene"
    /\ status = "done"
    /\ call.obj = "pivot"

EngineAssigned == render.engine # "-"

EeveeEngines == {"BLENDER_EEVEE_NEXT", "BLENDER_EEVEE"}

\* The selection order, and the branch each settings property belongs to.
SelectionChain ==
    /\ render.engine =
         IF render.USE_EEVEE
         THEN IF "BLENDER_EEVEE_NEXT" \in render.engine_items THEN "BLENDER_EEVEE_NEXT"
              ELSE IF "BLENDER_EEVEE" \in render.engine_items THEN "BLENDER_EEVEE"
              ELSE "CYCLES"
         ELSE "CYCLES"
    /\ \A x \in render.set :
         /\ x.owner = "eevee" => render.engine \in EeveeEngines
         /\ x.owner = "cycles" => render.engine = "CYCLES"
         /\ x.prop \in (IF x.owner = "eevee" THEN Range(EeveeProps)
                        ELSE Range(CyclesProps))

\* C17 (as stated): with USE_EEVEE the engine is BLENDER_EEVEE_NEXT if advertised,
\* else BLENDER_EEVEE if advertised, else CYCLES; without it, CYCLES. For every
\* advertised engine set the engine assigned is one the host advertises, and the
\* Eevee-only and Cycles-only properties are set only on their own branch.
C17_AssignedIsAdvertised ==
    EngineAssigned =>
        /\ SelectionChain
        /\ render.engine \in render.engine_items

\* C17 (amended): the same selection order and the same separation of properties;
\* an Eevee engine is assigned only when the host advertises it, but CYCLES is
\* assigned without consulting the advertised set, so the engine assigned is one
\* the host advertises exactly when the Eevee branch is taken or CYCLES is
\* advertised.
C17_EeveeAdvertisedCyclesUnchecked ==
    /\ EngineAssigned =>
         /\ SelectionChain
         /\ render.engine \in EeveeEngines => render.engine \in render.engine_items
         /\ render.engine \in render.engine_items
              <=> (render.engine \in EeveeEngines \/ "CYCLES" \in render.engine_items)
    /\ failed = "engine" =>
         /\ "CYCLES" \notin render.engine_items
         /\ ~render.USE_EEVEE \/ render.EEVEE_ID = "None"

\* USE_EEVEE on a host advertising no Eevee engine and no CYCLES: CYCLES assigned.
C17_Witness ==
    /\ render.USE_EEVEE
    /\ render.engine_items = {"BLENDER_WORKBENCH"}
    /\ render.engine = "CYCLES"
    /\ program = "space_scene"
    /\ render.set = {[owner |-> "cycles", prop |-> "samples"]}

\* Both Eevee engines advertised: the newer one assigned, its properties set.
C17_WitnessEevee ==
    /\ render.USE_EEVEE
    /\ {"BLENDER_EEVEE_NEXT", "BLENDER_EEVEE"} \subseteq render.engine_items
    /\ render.engine = "BLENDER_EEVEE_NEXT"
    /\ [owner |-> "eevee", prop |-> "use_bloom"] \in render.set

====
